---- MODULE Spec2Model ----
(***************************************************************************)
(* The server of the Rhyl car-boot site (src/unnamed/part_001): three JSON *)
(* documents (status.json, gallery.json, hero-background.json), two upload *)
(* directories, the multer middleware in front of the two upload routes,   *)
(* and the request handlers, each split at its await points.               *)
(*                                                                         *)
(* Granularity.  Node runs one callback at a time; a handler can be        *)
(* interleaved with others only where it awaits.  multer's middleware and  *)
(* the handler's synchronous prefix (password check, file check) form the  *)
(* first step of an upload; each awaited fs call together with the code    *)
(* that follows it up to the next await is one further step.  fs.writeFile *)
(* either replaces the document or throws and leaves it as it was.         *)
(***************************************************************************)
EXTENDS Integers, Sequences, FiniteSets, TLC

(* ------------------------------ bounds -------------------------------- *)
\* requests that Spec admits in one behaviour (all endpoints)
MaxRequests == 1
\* upload-gallery requests that SpecGallery admits in one behaviour
MaxGalleryRequests == 3
\* upload requests (gallery and hero) that SpecUpload admits
MaxUploadRequests == 2
\* upload-hero requests that SpecHero admits
MaxHeroRequests == 3
\* update-status requests that SpecClient admits
MaxUpdates == 1
\* invocations (loadSettings, hero timeout) the page starts in a behaviour
MaxLoads == 2
\* update-status and GET status requests that SpecStatus admits
MaxStatusRequests == 3
\* requests that may be in flight (between two awaits) at the same time
MaxInFlight == 2
\* the clock (Date.now()) runs from 1 to MaxTime
MaxTime == 2
\* Math.round(Math.random() * 1E9) is drawn from 1..MaxRandom
MaxRandom == 2

(* ------------------------- program constants -------------------------- *)
ADMIN_PASSWORD == "noblesrhyl1121"
\* if (galleryData.images.length >= 10)
MaxImages == 10
\* limits: { fileSize: 5 * 1024 * 1024 }, in MiB
GalleryFileSizeMiB == 5
\* limits: { fileSize: 10 * 1024 * 1024 }, in MiB
HeroFileSizeMiB == 10

\* setInterval(loadSettings, 30000) of the baseline page
BaselineRefreshMs == 30000
\* return isSlowConnection ? 45000 : 30000
SlowRefreshMs == 45000
NormalRefreshMs == 30000
\* battery.level < 0.2 ? 60000 : 30000 (the level in percent)
LowBatteryPercent == 20
LowBatteryRefreshMs == 60000
ChargedRefreshMs == 30000

(* --------------------------- JavaScript values ------------------------ *)
\* A value carries its type, so that === never equates values of two types.
Undefined == [t |-> "undefined", v |-> ""]
Null == [t |-> "null", v |-> ""]
Str(s) == [t |-> "string", v |-> s]
Bool(b) == [t |-> "boolean", v |-> IF b THEN "true" ELSE "false"]
\* new Date(ms).toISOString(): the ISO-8601 text of the instant ms
ISO(ms) == [t |-> "isodate", v |-> ms]

StrictEq(a, b) == a.t = b.t /\ a.v = b.v
Truthy(a) ==
    /\ a.t \notin {"undefined", "null"}
    /\ ~(a.t = "string" /\ a.v = "")
    /\ ~(a.t = "boolean" /\ a.v = "false")
\* a || b
OrElse(a, b) == IF Truthy(a) THEN a ELSE b

(* ------------------------------- files -------------------------------- *)
\* The content of a backing file: absent, text that JSON.parse rejects, or
\* the text JSON.stringify made of a value.
Missing == [kind |-> "missing"]
Corrupt == [kind |-> "corrupt"]
JSONstringify(value) == [kind |-> "json", value |-> value]
\* fs.readFile followed by JSON.parse throws on these
Throws(file) == file.kind \in {"missing", "corrupt"}
JSONparse(file) == file.value

\* path.extname(originalname); an original name is kept as base and extension
extname(originalname) == originalname.ext
FullName(originalname) == Str(originalname.base \o originalname.ext)

\* galleryStorage.filename
GalleryFilename(now, random, originalname) ==
    <<"gallery-", now, "-", random, extname(originalname)>>
NoFilename == <<"", 0, "", 0, "">>
\* heroStorage.filename
HeroFilename(originalname) == "hero-background" \o extname(originalname)

\* a directory maps the names of its files to their contents
WriteFile(dir, name, bytes) ==
    [n \in DOMAIN dir \cup {name} |-> IF n = name THEN bytes ELSE dir[n]]
Unlink(dir, name) == [n \in DOMAIN dir \ {name} |-> dir[n]]
EmptyDir == [n \in {} |-> ""]

(* ------------------------------ inputs -------------------------------- *)
\* what a caller may put in the password field: nothing, the empty string,
\* the secret, the secret with trailing whitespace, another word
Passwords ==
    {Undefined, Str(""), Str(ADMIN_PASSWORD), Str(ADMIN_PASSWORD \o " "),
     Str("letmein")}
\* an original name is kept as base and extension, a MIME type as type and
\* subtype ("image/jpeg", "text/plain")
NoFile ==
    [present |-> FALSE, mimetype |-> [type |-> "", subtype |-> ""],
     originalname |-> [base |-> "", ext |-> ""], bytes |-> "", sizeMiB |-> 0]
Descriptions == {Undefined, Str("sale")}
StatusInputs == {Undefined, Str("true"), Str("false"), Bool(TRUE)}
Notices == {Undefined, Str("Back at 9am")}

(* ------------------------------- state -------------------------------- *)
VARIABLES
    phase,        \* "starting", "initialized", "listening" (startServer)
    clock,        \* Date.now()
    statusFile,   \* DATA_FILE
    galleryFile,  \* GALLERY_FILE
    heroFile,     \* HERO_BG_FILE
    galleryDir,   \* GALLERY_UPLOADS_DIR: filename -> contents
    heroDir,      \* HERO_UPLOADS_DIR: filename -> contents
    reqs,         \* the requests suspended at an await, by slot
    budget,       \* requests still to be admitted
    last,         \* the response sent by the latest step, with its request
    wrote,        \* what the latest successful writeStatus was called with
    acked,        \* the images answered with { success: true, image }
    trip,         \* a caller of the Store: what it read, wrote and read back
    client,       \* the page: its globals, its DOM, its timers and listeners
    loads         \* the loadSettings invocations suspended at an await

vars ==
    <<phase, clock, statusFile, galleryFile, heroFile, galleryDir, heroDir,
      reqs, budget, last, wrote, acked, trip, client, loads>>
\* what no step of the server touches
aside == <<trip, client, loads>>

Slots == 1..MaxInFlight

IdleReq ==
    [pc |-> "idle", op |-> "", filename |-> NoFilename, heroname |-> "", originalName |-> Str(""),
     description |-> Str(""), uploadedAt |-> 0, images |-> <<>>,
     status |-> Bool(FALSE), notice |-> Str("")]

\* the response of a step: status code and, for an error, its message
Event(op, code, error, body) ==
    [op |-> op, code |-> code, error |-> error, body |-> body]
NoEvent == Event("", 0, "", Null)

(* --------------------- documents already on the disk ------------------ *)
SeedEntry(i) ==
    [filename |-> GalleryFilename(0, i, [base |-> "seed", ext |-> ".jpg"]),
     originalName |-> Str("seed.jpg"), description |-> Str("seed"),
     uploadedAt |-> ISO(0)]
SeedGallery(n) == [images |-> [i \in 1..n |-> SeedEntry(i)]]
SeedDir(n) == [f \in {SeedEntry(i).filename : i \in 1..n} |-> "old"]
\* a status document left by an earlier version, with a field of its own
LegacyStatus ==
    [status |-> Bool(TRUE), notice |-> Str("Easter Sunday"),
     lastUpdated |-> ISO(0), updatedBy |-> Str("admin")]

\* a hero document left by an earlier version, with a field of its own
LegacyHero ==
    [filename |-> Str("hero-background.gif"), originalName |-> Str("old.gif"),
     uploadedAt |-> ISO(0), caption |-> Str("Summer fair")]

(* ------------------------- the Persistent Store ----------------------- *)
DefaultStatus(now) ==
    [status |-> Bool(FALSE), notice |-> Str(""), lastUpdated |-> ISO(now)]
DefaultGallery == [images |-> <<>>]
DefaultHero == [filename |-> Null, uploadedAt |-> Null]

\* a call that throws hands this to its caller, whose catch sees it (no
\* read of the Store does)
Thrown == [thrown |-> TRUE]
IsThrown(result) == "thrown" \in DOMAIN result

readStatus(file, now) ==
    IF Throws(file) THEN DefaultStatus(now) ELSE JSONparse(file)
\* (readGallery without its try/catch)
readGalleryNoCatch(file) ==
    IF Throws(file) THEN Thrown ELSE JSONparse(file)
readGallery(file) ==
    IF Throws(file) THEN DefaultGallery ELSE JSONparse(file)
readHeroBackground(file) ==
    IF Throws(file) THEN DefaultHero ELSE JSONparse(file)

\* (lastUpdated not taken from the clock)
StatusDataStale(data, now) ==
    [status |-> data.status, notice |-> data.notice, lastUpdated |-> ISO(0)]
\* { ...data, lastUpdated: new Date().toISOString() }
StatusData(data, now) ==
    [status |-> data.status, notice |-> data.notice, lastUpdated |-> ISO(now)]
\* fs.writeFile(FILE, JSON.stringify(data, null, 2)): the whole file is
\* replaced, or the call throws and the file stays
writeFile(file, data, ok) == IF ok THEN JSONstringify(data) ELSE file

\* (a writeStatus that persists its argument as it is)
writeStatusUnstamped(file, data, now, ok) == writeFile(file, data, ok)
\* the content of DATA_FILE after writeStatus(data) called at `now`
writeStatus(file, data, now, ok) == writeFile(file, StatusData(data, now), ok)
\* (a write that appends the new entry to what the file holds by then)
writeGalleryAppending(file, data, ok) ==
    IF ok
    THEN JSONstringify([images |-> Append(readGallery(file).images,
                                          data.images[Len(data.images)])])
    ELSE file
\* the content of GALLERY_FILE after writeGallery(data)
writeGallery(file, data, ok) == writeFile(file, data, ok)
\* (a write that lays the new record over the stored one)
writeHeroBackgroundMerging(file, data, ok) ==
    IF ok
    THEN LET old == readHeroBackground(file)
         IN  JSONstringify([k \in DOMAIN old \cup DOMAIN data |->
                               IF k \in DOMAIN data THEN data[k] ELSE old[k]])
    ELSE file
\* the content of HERO_BG_FILE after writeHeroBackground(data)
writeHeroBackground(file, data, ok) == writeFile(file, data, ok)

(* ------------------------- a caller of the Store ---------------------- *)
\* The read and write operations of the three documents, called one after
\* the other as the handlers call them: a read of a document that does not
\* exist, the write of what was read, a read of what was written.
NoTrip == [pc |-> "idle", doc |-> "", value |-> Null, at |-> 0, back |-> Null]
Docs == {"status", "gallery", "hero"}
FileOf(doc) ==
    IF doc = "status" THEN statusFile
    ELSE IF doc = "gallery" THEN galleryFile ELSE heroFile
Read(doc) ==
    IF doc = "status" THEN readStatus(statusFile, clock)
    ELSE IF doc = "gallery" THEN readGallery(galleryFile)
    ELSE readHeroBackground(heroFile)

\* readStatus(), readGallery() or readHeroBackground() of an absent file
TripRead(doc) ==
    /\ trip.pc = "idle"
    /\ FileOf(doc) = Missing
    /\ trip' = [NoTrip EXCEPT !.pc = "read", !.doc = doc, !.value = Read(doc)]
    /\ last' = NoEvent
    /\ UNCHANGED <<phase, clock, statusFile, galleryFile, heroFile,
                   galleryDir, heroDir, reqs, budget, wrote, acked, client,
                   loads>>

\* writeStatus(value), writeGallery(value) or writeHeroBackground(value);
\* a write that throws ends the sequence
TripWrite(ok) ==
    /\ trip.pc = "read"
    /\ statusFile' =
          IF trip.doc = "status"
          THEN writeStatus(statusFile, trip.value, clock, ok) ELSE statusFile
    /\ galleryFile' =
          IF trip.doc = "gallery"
          THEN writeGallery(galleryFile, trip.value, ok) ELSE galleryFile
    /\ heroFile' =
          IF trip.doc = "hero"
          THEN writeHeroBackground(heroFile, trip.value, ok) ELSE heroFile
    /\ trip' = IF ok THEN [trip EXCEPT !.pc = "written", !.at = clock]
               ELSE NoTrip
    /\ last' = NoEvent
    /\ UNCHANGED <<phase, clock, galleryDir, heroDir, reqs, budget, wrote,
                   acked, client, loads>>

\* the read after the write
TripReadBack ==
    /\ trip.pc = "written"
    /\ trip' = [trip EXCEPT !.pc = "back", !.back = Read(trip.doc)]
    /\ last' = NoEvent
    /\ UNCHANGED <<phase, clock, statusFile, galleryFile, heroFile,
                   galleryDir, heroDir, reqs, budget, wrote, acked, client,
                   loads>>

\* the caller goes on to another document
TripEnd ==
    /\ trip.pc = "back"
    /\ trip' = NoTrip
    /\ last' = NoEvent
    /\ UNCHANGED <<phase, clock, statusFile, galleryFile, heroFile,
                   galleryDir, heroDir, reqs, budget, wrote, acked, client,
                   loads>>

(* ------------------------------ the page ------------------------------ *)
\* no page is open
NoPage == [variant |-> ""]
NoLoads == <<>>

\* obj.k of a parsed document: undefined when the document has no such field
Field(obj, k) == IF k \in DOMAIN obj THEN obj[k] ELSE Undefined
\* customNotice.trim() is empty
IsBlank(str) == str.v \in {"", " ", "  "}

\* The page after its script has run: the globals of the script, what the
\* browser offers (navigator.connection, navigator.getBattery), the
\* elements the script writes to (they start as index.html has them, taken
\* to be empty and hidden), and the timers it has set.
\* variant: "baseline" (app.js) or "mobile" (the mobile-optimized script).
Page(variant, isMobile, hasConnection, isSlowConnection, battery) ==
    [variant |-> variant, isMobile |-> isMobile,
     hasConnection |-> hasConnection,
     isSlowConnection |-> isSlowConnection, battery |-> battery,
     stage |-> "parsed", interval |-> 0,
     batteryPending |-> FALSE, batteryThen |-> 0,
     hidden |-> FALSE, seenVisible |-> FALSE,
     connTimers |-> 0, displayTimers |-> 0, heroTimers |-> 0,
     currentStatus |-> FALSE, customNotice |-> Str(""),
     statusText |-> "", noticeText |-> Str(""), noticeHidden |-> TRUE,
     statusFrom |-> 0,
     galleryImages |-> <<>>, galleryHidden |-> TRUE, galleryEmptyHidden |-> TRUE,
     galleryScroll |-> <<>>, heroImage |-> <<>>]

\* navigator.getBattery: absent, or a battery at `level` percent
NoBatteryAPI == [api |-> FALSE, level |-> 100]
Battery(level) == [api |-> TRUE, level |-> level]

\* the callback of navigator.getBattery().then(...)
BatteryCallback(battery) ==
    IF battery.level < LowBatteryPercent
    THEN LowBatteryRefreshMs ELSE ChargedRefreshMs
\* (a getRefreshInterval that returns what the battery callback computes)
getRefreshIntervalByBattery(battery, isSlowConnection) ==
    IF battery.api THEN BatteryCallback(battery)
    ELSE IF isSlowConnection THEN SlowRefreshMs ELSE NormalRefreshMs
\* getRefreshInterval(): the promise of getBattery() is left to itself, the
\* value returned is that of the last line
getRefreshInterval(battery, isSlowConnection) ==
    IF isSlowConnection THEN SlowRefreshMs ELSE NormalRefreshMs

\* updateStatusDisplay(): the baseline page writes the text at once, the
\* mobile page in a setTimeout of 100 ms; the notice is written at once
StatusText(currentStatus) ==
    IF currentStatus THEN "CURRENTLY OPEN" ELSE "CURRENTLY CLOSED"
updateStatusDisplay(page) ==
    [page EXCEPT
        !.statusText = IF page.variant = "baseline"
                       THEN StatusText(page.currentStatus) ELSE @,
        !.displayTimers = IF page.variant = "mobile" THEN @ + 1 ELSE @,
        !.noticeText = IF Truthy(page.customNotice) /\ ~IsBlank(page.customNotice)
                       THEN page.customNotice ELSE @,
        !.noticeHidden = ~(Truthy(page.customNotice)
                           /\ ~IsBlank(page.customNotice))]

\* one card of the gallery: the image URL (src, or data-src on the mobile
\* page, which loads the image when it scrolls into view) and the caption
Card(image) ==
    [url |-> <<"/uploads/gallery/", image.filename>>,
     caption |-> OrElse(Field(image, "description"),
                        Str("Car boot sale photo"))]
\* galleryImages.map(...).join('')
GalleryHTML(images) == [i \in 1..Len(images) |-> Card(images[i])]
\* updateGalleryDisplay(images): an empty gallery hides the container and
\* leaves its cards as they were
updateGalleryDisplay(page, images) ==
    IF Len(images) = 0
    THEN [page EXCEPT !.galleryImages = images, !.galleryHidden = TRUE,
                      !.galleryEmptyHidden = FALSE]
    ELSE [page EXCEPT !.galleryImages = images, !.galleryHidden = FALSE,
                      !.galleryEmptyHidden = TRUE,
                      !.galleryScroll = GalleryHTML(images)]

\* updateHeroBackground(backgroundData); the mobile page sets the
\* background on a desktop browser only (once the image is preloaded)
updateHeroBackground(page, backgroundData) ==
    IF ~Truthy(Field(backgroundData, "filename"))
       \/ (page.variant = "mobile" /\ page.isMobile)
    THEN page
    ELSE [page EXCEPT !.heroImage =
                         <<"/uploads/hero/", backgroundData.filename.v>>]


\* An invocation suspended at an await: loadSettings (started by the
\* initial load, the periodic timer, the visibility listener or the
\* connection listener) or the hero callback the mobile page schedules.
\* pc: the fetch it awaits; arrived: the request has been answered; failed:
\* by a network error, a timeout or a status that is not ok.
Load(fn, by, pc) ==
    [fn |-> fn, by |-> by, pc |-> pc, arrived |-> FALSE, failed |-> FALSE,
     response |-> Null]
InFlight(load) == load.pc # "done"
Refreshing == {i \in DOMAIN loads :
                  loads[i].fn = "loadSettings" /\ InFlight(loads[i])}
server ==
    <<phase, clock, statusFile, galleryFile, heroFile, galleryDir, heroDir,
      reqs, budget, wrote, acked>>

\* loadSettings() is called: it runs up to `await fetchStatus()`
CallLoadSettings(by) ==
    /\ Len(loads) < MaxLoads
    /\ loads' = Append(loads, Load("loadSettings", by, "status"))

\* document.addEventListener('DOMContentLoaded', ...) up to
\* `await loadSettings()`
DOMContentLoaded ==
    /\ client.variant # ""
    /\ client.stage = "parsed"
    /\ CallLoadSettings("initial")
    /\ client' = [client EXCEPT !.stage = "initial"]
    /\ last' = NoEvent
    /\ UNCHANGED <<server, trip>>

\* the GET of the fetch an invocation awaits is answered by the server, with
\* the document as it is now, or is lost (no server, network error,
\* timeout); the response, or the failure, is on its way to the page
FetchSettles(i, ok) ==
    /\ i \in DOMAIN loads
    /\ InFlight(loads[i])
    /\ ~loads[i].arrived
    /\ ok => phase = "listening"
    /\ LET pc == loads[i].pc
           op == IF pc = "status" THEN "GET /api/status"
                 ELSE IF pc = "gallery" THEN "GET /api/gallery"
                 ELSE "GET /api/hero-background"
           data == IF pc = "status" THEN readStatus(statusFile, clock)
                   ELSE IF pc = "gallery" THEN readGallery(galleryFile)
                   ELSE readHeroBackground(heroFile)
       IN  /\ loads' = [loads EXCEPT ![i].arrived = TRUE,
                                     ![i].failed = ~ok,
                                     ![i].response = IF ok THEN data ELSE Null]
           /\ last' = IF ok THEN Event(op, 200, "", data) ELSE NoEvent
    /\ UNCHANGED <<server, trip, client>>

\* data.images || [] (baseline), data?.images || [] (mobile); [] when the
\* fetch failed
FetchedImages(load) ==
    IF load.failed \/ "images" \notin DOMAIN load.response
    THEN <<>> ELSE load.response.images

\* the fetch awaited after this one, or "done" when loadSettings returns
NextPc(page, load) ==
    IF load.fn # "loadSettings" THEN "done"
    ELSE IF load.pc = "status"
    THEN IF page.variant = "mobile" /\ page.isSlowConnection
         THEN "done" ELSE "gallery"
    ELSE IF load.pc = "gallery" /\ page.variant = "baseline"
    THEN "hero"
    ELSE "done"

\* the DOMContentLoaded handler after `await loadSettings()`
Ready(page) ==
    [page EXCEPT
        !.stage = "ready",
        !.interval = IF page.variant = "baseline" THEN BaselineRefreshMs
                     ELSE getRefreshInterval(page.battery,
                                             page.isSlowConnection),
        !.batteryPending = page.variant = "mobile" /\ page.battery.api]

\* the response reaches the page: the invocation resumes with the result of
\* its fetch and runs to its next await, or to its end
Resume(i) ==
    /\ i \in DOMAIN loads
    /\ InFlight(loads[i])
    /\ loads[i].arrived
    /\ LET l == loads[i]
           applied ==
               IF l.pc = "status"
               THEN IF l.failed THEN client
                    ELSE updateStatusDisplay(
                           [client EXCEPT
                              !.currentStatus =
                                  Truthy(Field(l.response, "status")),
                              !.customNotice =
                                  OrElse(Field(l.response, "notice"), Str("")),
                              !.statusFrom = i])
               ELSE IF l.pc = "gallery"
               THEN updateGalleryDisplay(client, FetchedImages(l))
               ELSE IF l.failed THEN client
                    ELSE updateHeroBackground(client, l.response)
           next == NextPc(client, l)
           returns == next = "done" /\ l.fn = "loadSettings"
           scheduled ==
               IF returns /\ client.variant = "mobile" /\ ~client.isMobile
               THEN [applied EXCEPT !.heroTimers = @ + 1] ELSE applied
       IN  /\ client' = IF returns /\ l.by = "initial"
                        THEN Ready(scheduled) ELSE scheduled
           /\ loads' = [loads EXCEPT ![i] = Load(l.fn, l.by, next)]
    /\ last' = NoEvent
    /\ UNCHANGED <<server, trip>>

\* the promise of navigator.getBattery() resolves and its callback runs
BatteryResolves ==
    /\ client.variant = "mobile"
    /\ client.batteryPending
    /\ client' = [client EXCEPT !.batteryPending = FALSE,
                                !.batteryThen = BatteryCallback(client.battery)]
    /\ last' = NoEvent
    /\ UNCHANGED <<server, trip, loads>>

\* setInterval(loadSettings, interval) fires.  On the mobile page every
\* fetch of loadSettings times out (3 s, 5 s) long before the interval has
\* passed again, so two invocations by the timer do not meet; the fetches
\* of the baseline page have no timeout.
TimerFires ==
    /\ client.variant # ""
    /\ client.stage = "ready"
    /\ client.variant = "mobile" =>
          \A i \in Refreshing : loads[i].by # "timer"
    /\ CallLoadSettings("timer")
    /\ last' = NoEvent
    /\ UNCHANGED <<server, trip, client>>

\* visibilitychange: the tab is hidden or shown.  The baseline page
\* refreshes whenever it is shown; the mobile page when it is shown for the
\* first time or more than 30 s after the last change (longAgo).
VisibilityChange(longAgo) ==
    /\ client.variant # ""
    /\ LET refresh ==
               /\ client.hidden
               /\ \/ client.variant = "baseline"
                  \/ ~client.seenVisible
                  \/ longAgo
       IN  /\ IF refresh THEN CallLoadSettings("visibility")
              ELSE loads' = loads
    /\ client' = [client EXCEPT
                     !.hidden = ~@,
                     !.seenVisible = IF client.variant = "mobile"
                                     THEN TRUE ELSE @]
    /\ last' = NoEvent
    /\ UNCHANGED <<server, trip>>

\* navigator.connection 'change': setTimeout(loadSettings, 1000)
ConnectionChange ==
    /\ client.variant = "mobile"
    /\ client.hasConnection
    /\ client.connTimers + Len(loads) < MaxLoads
    /\ client' = [client EXCEPT !.connTimers = @ + 1]
    /\ last' = NoEvent
    /\ UNCHANGED <<server, trip, loads>>
ConnectionTimerFires ==
    /\ client.variant = "mobile"
    /\ client.connTimers > 0
    /\ CallLoadSettings("connection")
    /\ client' = [client EXCEPT !.connTimers = @ - 1]
    /\ last' = NoEvent
    /\ UNCHANGED <<server, trip>>

\* the setTimeout(async () => ..., 500) of the mobile loadSettings fires and
\* runs up to `await fetchHeroBackground()`
HeroTimerFires ==
    /\ client.variant = "mobile"
    /\ client.heroTimers > 0
    /\ Len(loads) < MaxLoads
    /\ loads' = Append(loads, Load("heroTimeout", "hero", "hero"))
    /\ client' = [client EXCEPT !.heroTimers = @ - 1]
    /\ last' = NoEvent
    /\ UNCHANGED <<server, trip>>

\* the setTimeout(..., 100) of the mobile updateStatusDisplay fires
DisplayTimerFires ==
    /\ client.variant = "mobile"
    /\ client.displayTimers > 0
    /\ client' = [client EXCEPT
                     !.displayTimers = @ - 1,
                     !.statusText = StatusText(client.currentStatus)]
    /\ last' = NoEvent
    /\ UNCHANGED <<server, trip, loads>>

\* what loadSettings sets going
LoadSteps ==
    \/ DOMContentLoaded
    \/ \E i \in 1..MaxLoads, ok \in BOOLEAN : FetchSettles(i, ok)
    \/ \E i \in 1..MaxLoads : Resume(i)
    \/ HeroTimerFires
    \/ DisplayTimerFires
\* the periodic refresh
RefreshSteps ==
    \/ BatteryResolves
    \/ TimerFires
\* the listeners
ListenerSteps ==
    \/ \E longAgo \in BOOLEAN : VisibilityChange(longAgo)
    \/ ConnectionChange
    \/ ConnectionTimerFires

(* ------------------------------ startup ------------------------------- *)
NoWrite ==
    [valid |-> FALSE, status |-> Bool(FALSE), notice |-> Str(""), before |-> 0]

\* the disk at startup: nothing there yet, files that no longer parse, or
\* the documents and uploads of earlier runs
Disk(sizes) ==
    /\ \/ /\ statusFile = Missing /\ galleryFile = Missing /\ heroFile = Missing
          /\ galleryDir = EmptyDir
       \/ /\ statusFile = Corrupt /\ galleryFile = Corrupt /\ heroFile = Corrupt
          /\ galleryDir = EmptyDir
       \/ \E n \in sizes :
            /\ statusFile = JSONstringify(LegacyStatus)
            /\ galleryFile = JSONstringify(SeedGallery(n))
            /\ heroFile = JSONstringify(DefaultHero)
            /\ galleryDir = SeedDir(n)
    /\ heroDir = EmptyDir

Init ==
    /\ phase = "starting"
    /\ clock = 1
    /\ Disk({MaxImages - 1, MaxImages})
    /\ reqs = [s \in Slots |-> IdleReq]
    /\ budget = MaxRequests
    /\ last = NoEvent
    /\ wrote = NoWrite
    /\ acked = {}
    /\ trip = NoTrip
    /\ client = NoPage
    /\ loads = NoLoads

\* initializeDataFiles: each file that fs.access does not find is written
\* with its default; a failing write leaves the function through the outer
\* catch, and the files after it are not looked at.  ok1..ok3: whether the
\* write of the status, gallery, hero file would succeed.
initializeDataFiles(ok1, ok2, ok3) ==
    /\ phase = "starting"
    /\ phase' = "initialized"
    /\ LET need1 == statusFile = Missing
           need2 == galleryFile = Missing
           need3 == heroFile = Missing
           reach2 == ~need1 \/ ok1
           reach3 == reach2 /\ (~need2 \/ ok2)
       IN  /\ statusFile' =
                IF need1 THEN writeFile(statusFile, DefaultStatus(clock), ok1)
                ELSE statusFile
           /\ galleryFile' =
                IF reach2 /\ need2 THEN writeFile(galleryFile, DefaultGallery, ok2)
                ELSE galleryFile
           /\ heroFile' =
                IF reach3 /\ need3 THEN writeFile(heroFile, DefaultHero, ok3)
                ELSE heroFile
    /\ UNCHANGED aside
    /\ UNCHANGED <<clock, galleryDir, heroDir, reqs, budget, last, wrote, acked>>

\* startServer: app.listen after createUploadDirectories and
\* initializeDataFiles have returned (neither of them throws)
Listen ==
    /\ phase = "initialized"
    /\ phase' = "listening"
    /\ UNCHANGED aside
    /\ UNCHANGED <<clock, statusFile, galleryFile, heroFile, galleryDir,
                   heroDir, reqs, budget, last, wrote, acked>>

\* time passes
Tick ==
    /\ clock < MaxTime
    /\ clock' = clock + 1
    /\ last' = NoEvent
    /\ UNCHANGED aside
    /\ UNCHANGED <<phase, statusFile, galleryFile, heroFile, galleryDir,
                   heroDir, reqs, budget, wrote, acked>>

(* ------------------------------ requests ------------------------------ *)
\* a request is admitted into the lowest free slot
Free(s) ==
    /\ phase = "listening"
    /\ budget > 0
    /\ reqs[s].pc = "idle"
    /\ \A r \in Slots : r < s => reqs[r].pc # "idle"

\* the step answers and the request is over
Respond(s, event) ==
    /\ reqs' = [reqs EXCEPT ![s] = IdleReq]
    /\ last' = event
\* the step suspends at the next await
Suspend(s, req) ==
    /\ reqs' = [reqs EXCEPT ![s] = req]
    /\ last' = NoEvent

\* req.body.password !== ADMIN_PASSWORD
Unauthorized(password) == ~StrictEq(password, Str(ADMIN_PASSWORD))

\* (a filter that takes every MIME type)
fileFilterAnyType(file) == file.mimetype.type # ""
\* fileFilter: file.mimetype.startsWith('image/')
fileFilter(file) == file.mimetype.type = "image"

\* multer's single('image') in front of a handler: "none" (no file part),
\* "rejected" (fileFilter), "too large" (limits.fileSize), "disk error"
\* (the write stream fails), "stored" (the file is in the directory)
Multer(file, limitMiB, diskOk) ==
    IF ~file.present THEN "none"
    ELSE IF ~fileFilter(file) THEN "rejected"
    ELSE IF file.sizeMiB > limitMiB THEN "too large"
    ELSE IF ~diskOk THEN "disk error"
    ELSE "stored"
\* the message of the error multer hands to next(err); Express answers 500
MulterError(outcome) ==
    CASE outcome = "rejected" -> "Only image files allowed"
      [] outcome = "too large" -> "File too large"
      [] outcome = "disk error" -> "EIO"

(* ------------------------ POST /admin/upload-gallery ------------------ *)
\* (the limit checked one entry late)
GalleryFullOffByOne(galleryData) == Len(galleryData.images) > MaxImages
\* galleryData.images.length >= 10
GalleryFull(galleryData) == Len(galleryData.images) >= MaxImages

\* uploadGallery.single('image'), then the handler up to `await
\* readGallery()`: password check, file check
PostUploadGallery(s, password, file, description, random, diskOk) ==
    /\ Free(s)
    /\ budget' = budget - 1
    /\ LET outcome == Multer(file, GalleryFileSizeMiB, diskOk)
           name == GalleryFilename(clock, random, file.originalname)
           answer(code, error) ==
               Respond(s, Event("upload-gallery", code, error, Null))
       IN  /\ galleryDir' =
                IF outcome = "stored"
                THEN WriteFile(galleryDir, name, file.bytes)
                ELSE galleryDir
           /\ IF outcome \in {"rejected", "too large", "disk error"}
              THEN answer(500, MulterError(outcome))
              ELSE IF Unauthorized(password)
              THEN answer(401, "Unauthorized")
              ELSE IF outcome = "none"
              THEN answer(400, "No file uploaded")
              ELSE Suspend(s, [IdleReq EXCEPT
                       !.pc = "readGallery", !.op = "upload-gallery",
                       !.filename = name,
                       !.originalName = FullName(file.originalname),
                       !.description = OrElse(description, Str(""))])
    /\ UNCHANGED aside
    /\ UNCHANGED <<phase, clock, statusFile, galleryFile, heroFile, heroDir,
                   wrote, acked>>

\* (the new entry put in front)
unshift(images, imageData) == <<imageData>> \o images
\* galleryData.images.push(imageData)
push(images, imageData) == Append(images, imageData)

\* the record the handler builds:
\* { filename, originalName, description, uploadedAt }
ImageData(r) ==
    [filename |-> r.filename, originalName |-> r.originalName,
     description |-> r.description, uploadedAt |-> ISO(r.uploadedAt)]

\* readGallery() returns; the length check; imageData is built and pushed
\* (an exception goes to the handler's catch)
UploadGalleryRead(s) ==
    /\ reqs[s].pc = "readGallery"
    /\ LET r == reqs[s]
           galleryData == readGallery(galleryFile)
           imageData == ImageData([r EXCEPT !.uploadedAt = clock])
       IN  IF IsThrown(galleryData)
           THEN Respond(s, Event(r.op, 500, "Upload failed", Null))
           ELSE IF GalleryFull(galleryData)
           THEN Suspend(s, [r EXCEPT !.pc = "unlink"])
           ELSE Suspend(s, [r EXCEPT !.pc = "writeGallery",
                                     !.uploadedAt = clock,
                                     !.images = push(galleryData.images,
                                                     imageData)])
    /\ UNCHANGED aside
    /\ UNCHANGED <<phase, clock, statusFile, galleryFile, heroFile,
                   galleryDir, heroDir, budget, wrote, acked>>

\* await fs.unlink(req.file.path), then 400; ENOENT goes to the catch
UploadGalleryUnlink(s) ==
    /\ reqs[s].pc = "unlink"
    /\ LET r == reqs[s]
           answer(code, error) ==
               Respond(s, Event(r.op, code, error, Null))
       IN  IF r.filename \in DOMAIN galleryDir
           THEN /\ galleryDir' = Unlink(galleryDir, r.filename)
                /\ answer(400, "Gallery full (10 max)")
           ELSE /\ galleryDir' = galleryDir
                /\ answer(500, "Upload failed")
    /\ UNCHANGED aside
    /\ UNCHANGED <<phase, clock, statusFile, galleryFile, heroFile, heroDir,
                   budget, wrote, acked>>

\* await writeGallery(galleryData), then { success: true, image: imageData }
UploadGalleryWrite(s, ok) ==
    /\ reqs[s].pc = "writeGallery"
    /\ LET r == reqs[s]
           imageData == ImageData(r)
       IN  /\ galleryFile' = writeGallery(galleryFile, [images |-> r.images], ok)
           /\ Respond(s, IF ok
                         THEN Event(r.op, 200, "",
                                    imageData)
                         ELSE Event(r.op, 500,
                                    "Upload failed", Null))
           /\ acked' = IF ok THEN acked \cup {imageData} ELSE acked
    /\ UNCHANGED aside
    /\ UNCHANGED <<phase, clock, statusFile, heroFile, galleryDir, heroDir,
                   budget, wrote>>

(* ------------------------- POST /admin/upload-hero -------------------- *)
\* uploadHero.single('image'), then the handler up to `await
\* writeHeroBackground(heroData)`
PostUploadHero(s, password, file, diskOk) ==
    /\ Free(s)
    /\ budget' = budget - 1
    /\ LET outcome == Multer(file, HeroFileSizeMiB, diskOk)
           name == HeroFilename(file.originalname)
           answer(code, error) ==
               Respond(s, Event("upload-hero", code, error, Null))
       IN  /\ heroDir' =
                IF outcome = "stored"
                THEN WriteFile(heroDir, name, file.bytes)
                ELSE heroDir
           /\ IF outcome \in {"rejected", "too large", "disk error"}
              THEN answer(500, MulterError(outcome))
              ELSE IF Unauthorized(password)
              THEN answer(401, "Unauthorized")
              ELSE IF outcome = "none"
              THEN answer(400, "No file uploaded")
              ELSE Suspend(s, [IdleReq EXCEPT
                       !.pc = "writeHero", !.op = "upload-hero",
                       !.heroname = name,
                       !.originalName = FullName(file.originalname),
                       !.uploadedAt = clock])
    /\ UNCHANGED aside
    /\ UNCHANGED <<phase, clock, statusFile, galleryFile, heroFile,
                   galleryDir, wrote, acked>>

\* the record the handler builds: { filename, originalName, uploadedAt }
HeroData(r) ==
    [filename |-> Str(r.heroname), originalName |-> r.originalName,
     uploadedAt |-> ISO(r.uploadedAt)]

\* writeHeroBackground(heroData) returns, then { success: true, hero }
UploadHeroWrite(s, ok) ==
    /\ reqs[s].pc = "writeHero"
    /\ LET r == reqs[s]
       IN  /\ heroFile' = writeHeroBackground(heroFile, HeroData(r), ok)
           /\ Respond(s, IF ok
                         THEN Event(r.op, 200, "",
                                    HeroData(r))
                         ELSE Event(r.op, 500,
                                    "Upload failed", Null))
    /\ UNCHANGED aside
    /\ UNCHANGED <<phase, clock, statusFile, galleryFile, galleryDir,
                   heroDir, budget, wrote, acked>>

(* ------------------------ POST /admin/update-status ------------------- *)
\* status === 'true' || status === true
IsOpen(status) ==
    Bool(StrictEq(status, Str("true")) \/ StrictEq(status, Bool(TRUE)))

\* the handler up to `await writeStatus(...)`; writeStatus stamps
\* lastUpdated when it is called
PostUpdateStatus(s, password, status, notice) ==
    /\ Free(s)
    /\ budget' = budget - 1
    /\ IF Unauthorized(password)
       THEN Respond(s, Event("update-status", 401, "Unauthorized", Null))
       ELSE Suspend(s, [IdleReq EXCEPT
                !.pc = "writeStatus", !.op = "update-status",
                !.status = IsOpen(status),
                !.notice = OrElse(notice, Str("")), !.uploadedAt = clock])
    /\ UNCHANGED aside
    /\ UNCHANGED <<phase, clock, statusFile, galleryFile, heroFile,
                   galleryDir, heroDir, wrote, acked>>

\* fs.writeFile in writeStatus returns, then { success: true, data }
UpdateStatusWrite(s, ok) ==
    /\ reqs[s].pc = "writeStatus"
    /\ LET r == reqs[s]
           statusData == StatusData(r, r.uploadedAt)
       IN  /\ statusFile' = writeStatus(statusFile, r, r.uploadedAt, ok)
           /\ wrote' =
                IF ok
                THEN [valid |-> TRUE, status |-> r.status, notice |-> r.notice,
                      before |-> r.uploadedAt]
                ELSE wrote
           /\ Respond(s, IF ok
                         THEN Event(r.op, 200, "", statusData)
                         ELSE Event(r.op, 500,
                                    "Update failed", Null))
    /\ UNCHANGED aside
    /\ UNCHANGED <<phase, clock, galleryFile, heroFile, galleryDir, heroDir,
                   budget, acked>>

(* ------------------------------ GET /api/... -------------------------- *)
\* res.json(data), or 500 from the handler's catch
Get(op, data, error) ==
    /\ phase = "listening"
    /\ budget > 0
    /\ budget' = budget - 1
    /\ last' = IF IsThrown(data)
               THEN Event(op, 500, error, Null)
               ELSE Event(op, 200, "", data)
    /\ UNCHANGED aside
    /\ UNCHANGED <<phase, clock, statusFile, galleryFile, heroFile,
                   galleryDir, heroDir, reqs, wrote, acked>>

GetStatus ==
    Get("GET /api/status", readStatus(statusFile, clock), "Failed to get status")
GetGallery ==
    Get("GET /api/gallery", readGallery(galleryFile), "Failed to get gallery")
GetHeroBackground ==
    Get("GET /api/hero-background", readHeroBackground(heroFile),
        "Failed to get hero background")

(* --------------------------- specifications --------------------------- *)
\* the file parts tried: an image, an image of another extension, a text
\* file, an image over both size limits
Image(originalname, sizeMiB) ==
    [present |-> TRUE, mimetype |-> [type |-> "image", subtype |-> "jpeg"],
     originalname |-> originalname, bytes |-> "new", sizeMiB |-> sizeMiB]
Jpg == [base |-> "a", ext |-> ".jpg"]
Png == [base |-> "b", ext |-> ".png"]
TextFile ==
    [present |-> TRUE, mimetype |-> [type |-> "text", subtype |-> "plain"],
     originalname |-> [base |-> "notes", ext |-> ".txt"], bytes |-> "new",
     sizeMiB |-> 1]
JpgImage == Image(Jpg, 1)
PngImage == Image(Png, 1)
Files == {NoFile, JpgImage, TextFile, Image(Jpg, 11)}
HeroFiles == Files \cup {PngImage}
\* the callers and the file parts of the narrower specifications
Admin == {Str(ADMIN_PASSWORD)}
AdminAndStranger == {Str(ADMIN_PASSWORD), Str("letmein")}
OneImage == {JpgImage}
TextAndJpg == {TextFile, JpgImage}
TextAndPng == {TextFile, PngImage}
JpgAndPng == {JpgImage, PngImage}
NoDescription == {Undefined}
Sale == {Str("sale")}

\* (Free(s) stands in front of the inputs only to spare their enumeration
\* where no request can be admitted; each Post... action states it itself)
GallerySteps(passwords, files, descriptions) ==
    \E s \in Slots :
        \/ /\ Free(s)
           /\ \E password \in passwords, file \in files,
                 description \in descriptions, random \in 1..MaxRandom,
                 diskOk \in BOOLEAN :
                   PostUploadGallery(s, password, file, description, random,
                                     diskOk)
        \/ UploadGalleryRead(s)
        \/ UploadGalleryUnlink(s)
        \/ \E ok \in BOOLEAN : UploadGalleryWrite(s, ok)

HeroSteps(passwords, files) ==
    \E s \in Slots :
        \/ /\ Free(s)
           /\ \E password \in passwords, file \in files, diskOk \in BOOLEAN :
                   PostUploadHero(s, password, file, diskOk)
        \/ \E ok \in BOOLEAN : UploadHeroWrite(s, ok)

StatusSteps(passwords) ==
    \E s \in Slots :
        \/ /\ Free(s)
           /\ \E password \in passwords, status \in StatusInputs,
                 notice \in Notices :
                   PostUpdateStatus(s, password, status, notice)
        \/ \E ok \in BOOLEAN : UpdateStatusWrite(s, ok)

Next ==
    \/ \E ok1, ok2, ok3 \in BOOLEAN : initializeDataFiles(ok1, ok2, ok3)
    \/ Listen
    \/ Tick
    \/ GallerySteps(Passwords, Files, Descriptions)
    \/ HeroSteps(Passwords, HeroFiles)
    \/ StatusSteps(Passwords)
    \/ GetStatus
    \/ GetGallery
    \/ GetHeroBackground

Spec == Init /\ [][Next]_vars

\* The gallery alone, from a running server: a burst of uploads, by the
\* administrator and by a caller without the secret, inside one millisecond
\* of the clock (which is when two generated names can coincide; the
\* handler's control flow reads no time).  Spec lets the clock advance.
InitGallery ==
    /\ phase = "listening"
    /\ clock = 1
    /\ \E n \in {0, MaxImages - 1, MaxImages} :
            /\ galleryFile = JSONstringify(SeedGallery(n))
            /\ galleryDir = SeedDir(n)
    /\ statusFile = JSONstringify(LegacyStatus)
    /\ heroFile = JSONstringify(DefaultHero)
    /\ heroDir = EmptyDir
    /\ reqs = [s \in Slots |-> IdleReq]
    /\ budget = MaxGalleryRequests
    /\ last = NoEvent
    /\ wrote = NoWrite
    /\ acked = {}
    /\ trip = NoTrip
    /\ client = NoPage
    /\ loads = NoLoads

NextGallery ==
    GallerySteps(AdminAndStranger, OneImage, NoDescription)

SpecGallery == InitGallery /\ [][NextGallery]_vars

\* The two upload endpoints, from a running server: image and non-image
\* files, sent by the administrator and by a caller without the secret.
InitUpload ==
    /\ phase = "listening"
    /\ clock = 1
    /\ \E n \in {MaxImages - 1, MaxImages} :
            /\ galleryFile = JSONstringify(SeedGallery(n))
            /\ galleryDir = SeedDir(n)
    /\ statusFile = JSONstringify(LegacyStatus)
    /\ heroFile = JSONstringify(DefaultHero)
    /\ heroDir = EmptyDir
    /\ reqs = [s \in Slots |-> IdleReq]
    /\ budget = MaxUploadRequests
    /\ last = NoEvent
    /\ wrote = NoWrite
    /\ acked = {}
    /\ trip = NoTrip
    /\ client = NoPage
    /\ loads = NoLoads

NextUpload ==
    \/ GallerySteps(AdminAndStranger, TextAndJpg, NoDescription)
    \/ HeroSteps(AdminAndStranger, TextAndPng)

SpecUpload == InitUpload /\ [][NextUpload]_vars

\* The status document alone, from a running server.
InitStatus ==
    /\ phase = "listening"
    /\ clock = 1
    /\ \/ statusFile = Missing
       \/ statusFile = Corrupt
       \/ statusFile = JSONstringify(LegacyStatus)
    /\ galleryFile = JSONstringify(DefaultGallery)
    /\ galleryDir = EmptyDir
    /\ heroFile = JSONstringify(DefaultHero)
    /\ heroDir = EmptyDir
    /\ reqs = [s \in Slots |-> IdleReq]
    /\ budget = MaxStatusRequests
    /\ last = NoEvent
    /\ wrote = NoWrite
    /\ acked = {}
    /\ trip = NoTrip
    /\ client = NoPage
    /\ loads = NoLoads

NextStatus ==
    \/ Tick
    \/ StatusSteps({Str(ADMIN_PASSWORD), Str("")})
    \/ GetStatus

SpecStatus == InitStatus /\ [][NextStatus]_vars

\* The hero endpoint alone, from a running server whose hero document is
\* the default or the record of an earlier upload.
InitHero ==
    /\ phase = "listening"
    /\ clock = 1
    /\ statusFile = JSONstringify(LegacyStatus)
    /\ galleryFile = JSONstringify(DefaultGallery)
    /\ galleryDir = EmptyDir
    /\ \/ /\ heroFile = JSONstringify(DefaultHero)
          /\ heroDir = EmptyDir
       \/ /\ heroFile = JSONstringify(LegacyHero)
          /\ heroDir = WriteFile(EmptyDir, "hero-background.gif", "old")
    /\ reqs = [s \in Slots |-> IdleReq]
    /\ budget = MaxHeroRequests
    /\ last = NoEvent
    /\ wrote = NoWrite
    /\ acked = {}
    /\ trip = NoTrip
    /\ client = NoPage
    /\ loads = NoLoads

NextHero ==
    \/ Tick
    \/ HeroSteps(Admin, JpgAndPng)

SpecHero == InitHero /\ [][NextHero]_vars

\* A page open on a running server while the administrator closes the
\* site: the baseline page, or the mobile page on a desktop browser.
InitPage(pages) ==
    /\ phase = "listening"
    /\ clock = 1
    /\ statusFile = JSONstringify(LegacyStatus)
    /\ galleryFile = JSONstringify(SeedGallery(2))
    /\ galleryDir = SeedDir(2)
    /\ heroFile = JSONstringify(LegacyHero)
    /\ heroDir = WriteFile(EmptyDir, "hero-background.gif", "old")
    /\ reqs = [s \in Slots |-> IdleReq]
    /\ last = NoEvent
    /\ wrote = NoWrite
    /\ acked = {}
    /\ trip = NoTrip
    /\ client \in pages
    /\ loads = NoLoads

InitClient ==
    /\ InitPage({Page("baseline", FALSE, FALSE, FALSE, NoBatteryAPI),
                 Page("mobile", FALSE, TRUE, FALSE, Battery(10))})
    /\ budget = MaxUpdates

NextClient ==
    \/ LoadSteps
    \/ RefreshSteps
    \/ ListenerSteps
    \/ \E s \in Slots :
          \/ PostUpdateStatus(s, Str(ADMIN_PASSWORD), Str("false"),
                              Str("Back at 9am"))
          \/ UpdateStatusWrite(s, TRUE)

SpecClient == InitClient /\ [][NextClient]_vars

\* The gallery and a baseline page that shows it: uploads by the
\* administrator, on a fresh store or into a gallery of nine, while the page
\* loads.
InitGalleryPage ==
    /\ phase = "listening"
    /\ clock = 1
    /\ \E n \in {0, MaxImages - 1} :
            /\ galleryFile = JSONstringify(SeedGallery(n))
            /\ galleryDir = SeedDir(n)
    /\ statusFile = JSONstringify(LegacyStatus)
    /\ heroFile = JSONstringify(DefaultHero)
    /\ heroDir = EmptyDir
    /\ reqs = [s \in Slots |-> IdleReq]
    /\ budget = MaxUploadRequests
    /\ last = NoEvent
    /\ wrote = NoWrite
    /\ acked = {}
    /\ trip = NoTrip
    /\ client = Page("baseline", FALSE, FALSE, FALSE, NoBatteryAPI)
    /\ loads = NoLoads

NextGalleryPage ==
    \/ GallerySteps(Admin, OneImage, Sale)
    \/ DOMContentLoaded
    \/ \E i \in 1..MaxLoads, ok \in BOOLEAN : FetchSettles(i, ok)
    \/ \E i \in 1..MaxLoads : Resume(i)

SpecGalleryPage == InitGalleryPage /\ [][NextGalleryPage]_vars

\* The mobile page alone, on every kind of browser: with and without
\* navigator.connection, on a slow and on a fast connection, without the
\* battery API and with a low and a charged battery.
InitRefresh ==
    /\ InitPage({Page("mobile", isMobile, c[1], c[2], battery) :
                    isMobile \in BOOLEAN,
                    c \in {<<FALSE, FALSE>>, <<TRUE, FALSE>>, <<TRUE, TRUE>>},
                    battery \in {NoBatteryAPI, Battery(10), Battery(20)}})
    /\ budget = 0

NextRefresh ==
    \/ LoadSteps
    \/ RefreshSteps

SpecRefresh == InitRefresh /\ [][NextRefresh]_vars

\* The Store alone, on a disk that holds none of the three documents.
InitTrip ==
    /\ phase = "listening"
    /\ clock = 1
    /\ statusFile = Missing /\ galleryFile = Missing /\ heroFile = Missing
    /\ galleryDir = EmptyDir
    /\ heroDir = EmptyDir
    /\ reqs = [s \in Slots |-> IdleReq]
    /\ budget = 0
    /\ last = NoEvent
    /\ wrote = NoWrite
    /\ acked = {}
    /\ trip = NoTrip
    /\ client = NoPage
    /\ loads = NoLoads

NextTrip ==
    \/ Tick
    \/ \E doc \in Docs : TripRead(doc)
    \/ \E ok \in BOOLEAN : TripWrite(ok)
    \/ TripReadBack
    \/ TripEnd

SpecTrip == InitTrip /\ [][NextTrip]_vars

(* ------------------------------- claims ------------------------------- *)
Documents == <<statusFile, galleryFile, heroFile>>
Uploads == <<galleryDir, heroDir>>

\* a step that is the first step of a mutating request sent with `password`
\* (for the uploads: with the file part `file`, on a disk that takes the
\* file or not)
IsPostUploadGallery(password, file, diskOk) ==
    \E s \in Slots, description \in Descriptions, random \in 1..MaxRandom :
        PostUploadGallery(s, password, file, description, random, diskOk)
IsPostUploadHero(password, file, diskOk) ==
    \E s \in Slots : PostUploadHero(s, password, file, diskOk)
IsPostUpdateStatus(password) ==
    \E s \in Slots, status \in StatusInputs, notice \in Notices :
        PostUpdateStatus(s, password, status, notice)
IsPost(password, diskOk) ==
    \/ \E file \in Files : IsPostUploadGallery(password, file, diskOk)
    \/ \E file \in HeroFiles :
            IsPostUploadHero(password, file, diskOk)
    \/ IsPostUpdateStatus(password)
Images(file) == JSONparse(file).images
Entries(file) == {Images(file)[i] : i \in 1..Len(Images(file))}

\* C1: a request to update-status, upload-gallery or upload-hero whose
\* password is not the admin secret changes neither the three documents nor
\* the files of the two upload directories.
C1_UnauthorizedChangesNothing ==
    [][\A password \in Passwords \ {Str(ADMIN_PASSWORD)} :
          IsPost(password, TRUE) => UNCHANGED <<Documents, Uploads>>]_vars

\* C2: on the three mutating endpoints a request is answered 401 exactly
\* when its password field is not the configured secret: absent, empty, the
\* secret with trailing whitespace and any other word are all refused.
\* (Stated for requests whose file, if any, the disk takes: a refutation
\* does not rest on an I/O failure.)
C2_UnauthorizedIs401 ==
    [][\A password \in Passwords :
          IsPost(password, TRUE) =>
              (last'.code = 401 <=> password # Str(ADMIN_PASSWORD))]_vars

\* C3: the stored gallery document never holds more than 10 entries,
\* whatever upload-gallery requests run and however they interleave.
C3_GalleryAtMostTen ==
    galleryFile.kind = "json" => Len(Images(galleryFile)) <= 10
\* the gallery was filled by one request while another, which read it
\* before, still holds its own copy to write
C3_Witness ==
    /\ galleryFile.kind = "json"
    /\ Len(Images(galleryFile)) = 10
    /\ last.op = "upload-gallery" /\ last.code = 200
    /\ \E s \in Slots :
          reqs[s].pc = "writeGallery" /\ Len(reqs[s].images) = 10

\* C4: an authorized upload-gallery request that finds 10 entries answers
\* the gallery-full error, leaves the gallery document as it is, and its
\* file is not in the gallery directory when it answers.
C4_FullGalleryRejects ==
    [][\A s \in Slots :
          UploadGalleryUnlink(s) =>
              /\ last'.code = 400
              /\ last'.error = "Gallery full (10 max)"
              /\ galleryFile' = galleryFile
              /\ reqs[s].filename \notin DOMAIN galleryDir']_vars

\* C5: an upload that answers success has its image file in the upload
\* directory and its record in the document; an upload that answers an
\* error has changed neither the gallery nor the hero document.
C5_NoPartialSuccess ==
    [][/\ last'.op = "upload-gallery" /\ last'.code = 200 =>
            /\ last'.body.filename \in DOMAIN galleryDir'
            /\ galleryFile'.kind = "json"
            /\ last'.body \in Entries(galleryFile')
       /\ last'.op = "upload-hero" /\ last'.code = 200 =>
            /\ last'.body.filename.v \in DOMAIN heroDir'
            /\ heroFile' = JSONstringify(last'.body)
       /\ last'.op \in {"upload-gallery", "upload-hero"} /\ last'.code # 200 =>
            UNCHANGED <<galleryFile, heroFile>>]_vars

\* C6: an upload whose file is not of an image MIME type is rejected, and
\* neither a file nor a document entry is written for it.
C6_NonImageRejected ==
    [][\A password \in Passwords, diskOk \in BOOLEAN :
          \/ IsPostUploadGallery(password, TextFile, diskOk)
          \/ IsPostUploadHero(password, TextFile, diskOk)
          => /\ last'.code >= 400
             /\ last'.error = "Only image files allowed"
             /\ UNCHANGED <<Documents, Uploads>>]_vars
C6_Witness ==
    /\ last.op = "upload-gallery"
    /\ last.error = "Only image files allowed"
    /\ galleryDir = SeedDir(MaxImages - 1)

\* C7: no two entries of the gallery document have the same filename.
C7_UniqueFilenames ==
    galleryFile.kind = "json" =>
        \A i, j \in 1..Len(Images(galleryFile)) :
            i # j => Images(galleryFile)[i].filename
                        # Images(galleryFile)[j].filename

\* C8: a successful write of the gallery replaces the whole document by
\* the writer's own copy (what it read, plus its entry), whatever was
\* written since it read: the later write wins.
C8_LaterWriteWins ==
    [][\A s \in Slots :
          UploadGalleryWrite(s, TRUE) =>
              Images(galleryFile') = reqs[s].images]_vars
\* the lost update: two uploads were answered success, and the document
\* holds the entry of the later one only
C8_LostUpdate ==
    /\ last.op = "upload-gallery" /\ last.code = 200
    /\ last.body \in Entries(galleryFile)
    /\ \E e \in acked : e \notin Entries(galleryFile)

\* C9: readStatus after a successful writeStatus returns the flag and the
\* notice just written and a lastUpdated not before the call, and no field
\* of the record that was there before.
C9_ReadReturnsWritten ==
    last.op = "GET /api/status" /\ wrote.valid =>
        /\ last.code = 200
        /\ DOMAIN last.body = {"status", "notice", "lastUpdated"}
        /\ last.body.status = wrote.status
        /\ last.body.notice = wrote.notice
        /\ last.body.lastUpdated.t = "isodate"
        /\ last.body.lastUpdated.v >= wrote.before
C9_Witness ==
    /\ last.op = "GET /api/status"
    /\ wrote.valid
    /\ last.body.status = Bool(TRUE)
    /\ last.body.notice = Str("Back at 9am")
    /\ wrote.before = MaxTime

\* C10: the GET operations answer 200, and with the default when the
\* backing file is missing or does not parse.
C10_ReadsNeverRaise ==
    /\ last.op \in {"GET /api/status", "GET /api/gallery",
                    "GET /api/hero-background"} => last.code = 200
    /\ last.op = "GET /api/status" /\ statusFile.kind # "json" =>
          last.body = [status |-> Bool(FALSE), notice |-> Str(""),
                       lastUpdated |-> ISO(clock)]
    /\ last.op = "GET /api/gallery" /\ galleryFile.kind # "json" =>
          last.body = [images |-> <<>>]
    /\ last.op = "GET /api/hero-background" /\ heroFile.kind # "json" =>
          last.body = [filename |-> Null, uploadedAt |-> Null]
\* the gallery file could not be created at startup, and is read
C10_Witness ==
    /\ last.op = "GET /api/gallery"
    /\ galleryFile = Missing
    /\ statusFile.kind = "json"

\* C11 (as stated): for each of the three documents, the default read from
\* a document that does not exist, written with the document's write and
\* read back, comes back identical.
C11_RoundTripIdentity ==
    trip.pc = "back" => trip.back = trip.value
\* C11 (amended): for the gallery and the hero documents the round trip of
\* the default is the identity; for the status document the record read
\* back has the default's status and notice and no other field but
\* lastUpdated, which is the time of the write.
C11_RoundTripButStamp ==
    trip.pc = "back" =>
        /\ trip.doc \in {"gallery", "hero"} => trip.back = trip.value
        /\ trip.doc = "status" =>
              /\ DOMAIN trip.back = DOMAIN trip.value
              /\ trip.back.status = trip.value.status
              /\ trip.back.notice = trip.value.notice
              /\ trip.back.lastUpdated = ISO(trip.at)
C11_Witness ==
    /\ trip.pc = "back"
    /\ trip.doc = "status"
    /\ trip.value = DefaultStatus(1)
    /\ trip.at = 2
    /\ trip.back.lastUpdated = ISO(2)

\* C12: first-run initialization precedes serving: a backing file that is
\* absent at startup is created holding its default by initializeDataFiles,
\* and the server never listens (so never serves a request) while one of the
\* three backing files is missing.
C12_InitializedBeforeServing ==
    [][/\ phase = "starting" /\ phase' = "initialized" =>
            /\ statusFile = Missing =>
                  statusFile' = JSONstringify(DefaultStatus(clock))
            /\ galleryFile = Missing =>
                  galleryFile' = JSONstringify(DefaultGallery)
            /\ heroFile = Missing =>
                  heroFile' = JSONstringify(DefaultHero)
       /\ phase' = "listening" =>
            Missing \notin {statusFile', galleryFile', heroFile'}]_vars

\* C13: the hero document holds one record: every successful upload-hero
\* leaves the document exactly the record (filename, originalName,
\* uploadedAt) it answers with, no field of an earlier record remaining,
\* and nothing else changes the document.
C13_HeroIsLastUpload ==
    [][IF last'.op = "upload-hero" /\ last'.code = 200
       THEN /\ heroFile' = JSONstringify(last'.body)
            /\ DOMAIN JSONparse(heroFile') =
                  {"filename", "originalName", "uploadedAt"}
       ELSE heroFile' = heroFile]_vars
C13_Witness ==
    /\ last.op = "upload-hero" /\ last.code = 200
    /\ "hero-background.gif" \in DOMAIN heroDir
    /\ {"hero-background.jpg", "hero-background.png"} \subseteq DOMAIN heroDir
    /\ heroFile = JSONstringify(last.body)
    /\ last.body.uploadedAt = ISO(2)

\* C15: the refreshes started by the periodic timer, the visibility
\* listener and the connection listener never overlap: at most one
\* loadSettings invocation is in flight at any time, and the status response
\* of an older invocation is never applied after that of a newer one.
C15_RefreshesNeverOverlap ==
    [][/\ Cardinality(Refreshing') <= 1
       /\ client'.statusFrom >= client.statusFrom]_vars

RendersInOrder(cards, images) ==
    /\ Len(cards) = Len(images)
    /\ \A k \in 1..Len(images) :
          cards[k].url = <<"/uploads/gallery/", images[k].filename>>
\* the step in which the page renders a gallery that is not empty shows the
\* entries of the document it fetched in their stored order
ClientRendersStoredOrder ==
    \A i \in DOMAIN loads :
        /\ loads[i].pc = "gallery" /\ loads[i].arrived /\ ~loads[i].failed
        /\ loads'[i].pc # "gallery"
        /\ Len(loads[i].response.images) > 0
        => RendersInOrder(client'.galleryScroll, loads[i].response.images)

\* C14 (as stated): a successful upload-gallery leaves every entry of the
\* stored gallery unchanged and in its place and appends exactly one new
\* entry at the end; the page renders the entries in the stored order.
C14_AppendsToStored ==
    [][/\ last'.op = "upload-gallery" /\ last'.code = 200 =>
            Images(galleryFile') =
                Append(readGallery(galleryFile).images, last'.body)
       /\ ClientRendersStoredOrder]_vars
\* C14 (amended): the document a successful upload-gallery writes is the
\* gallery as that request read it, every entry unchanged and in its place,
\* with exactly one new entry, the one it answers with, at the end; when
\* the stored gallery is still what the request read, that is the stored
\* gallery with the new entry appended.  The page renders the entries of
\* the document it fetched in their stored order.
C14_AppendsToWhatItRead ==
    [][/\ \A s \in Slots :
            UploadGalleryWrite(s, TRUE) =>
                LET new == Images(galleryFile')
                    n == Len(new)
                    read == SubSeq(reqs[s].images, 1, Len(reqs[s].images) - 1)
                    stored == readGallery(galleryFile).images
                IN  /\ last'.code = 200
                    /\ n = Len(read) + 1
                    /\ n <= MaxImages
                    /\ SubSeq(new, 1, n - 1) = read
                    /\ new[n] = last'.body
                    /\ stored = read => new = Append(stored, last'.body)
       /\ ClientRendersStoredOrder]_vars
\* a fresh store, one upload of a.jpg described "sale": the gallery holds
\* exactly that entry, and the page shows exactly its card
C14_Witness ==
    /\ Len(Images(galleryFile)) = 1
    /\ Images(galleryFile)[1] \in acked
    /\ Images(galleryFile)[1].description = Str("sale")
    /\ Images(galleryFile)[1].filename[5] = ".jpg"
    /\ client.galleryHidden = FALSE
    /\ RendersInOrder(client.galleryScroll, Images(galleryFile))

\* C17: every entry of the stored gallery document names a file that is in
\* the gallery upload directory, whatever upload-gallery requests have run
\* (in particular the unlink of the gallery-full path removes no file that
\* a stored entry refers to).
C17_EntriesHaveFiles ==
    galleryFile.kind = "json" =>
        \A e \in Entries(galleryFile) : e.filename \in DOMAIN galleryDir
====
